---- MODULE Spec2Model ----
(***************************************************************************)
(* Model of rust/hello_world/src/main.rs: the argument validator           *)
(* parseNameFromArgs, the InvalidArgumentsError value with its Display and *)
(* derived Debug renderings, and one run of main up to process exit.       *)
(* A string is a sequence of one-character strings.                        *)
(***************************************************************************)
EXTENDS Integers, Sequences, FiniteSets, TLC

VARIABLES args, pc, result, mainRet, stdout, stderr, exitStatus

vars == <<args, pc, result, mainRet, stdout, stderr, exitStatus>>

\* ---------------------------------------------------------------- bounds
\* Largest number of elements of the process argument list (program name
\* included) that is explored.
MaxArgs == 3

\* Largest number of characters of one argument that is explored.
MaxTokLen == 2

\* Characters an argument is built from: a letter, a space, and a tab
\* (whitespace that the Debug rendering escapes).
Chars == {"a", " ", "\t"}

RECURSIVE StrUpTo(_)
StrUpTo(n) ==
    IF n = 0 THEN {<<>>}
    ELSE LET shorter == StrUpTo(n - 1)
         IN  shorter \cup {s \o <<c>> : s \in {t \in shorter : Len(t) = n - 1}, c \in Chars}

Tokens == StrUpTo(MaxTokLen)

RECURSIVE ListsUpTo(_)
ListsUpTo(n) ==
    IF n = 0 THEN {<<>>}
    ELSE LET shorter == ListsUpTo(n - 1)
         IN  shorter \cup {l \o <<t>> : l \in {k \in shorter : Len(k) = n - 1}, t \in Tokens}

\* Values of element 0, the program's own name.
ProgNames == {<<"a">>, <<" ", "\t">>}

\* The argument lists explored: the empty list, and a program name followed
\* by up to MaxArgs - 1 user arguments.
ArgLists == {<<>>} \cup {<<p>> \o l : p \in ProgNames, l \in ListsUpTo(MaxArgs - 1)}

\* ------------------------------------------------------- string helpers
\* char::is_whitespace, restricted to the ASCII whitespace characters.
IsWhitespace(c) == c \in {" ", "\t", "\n", "\r"}

RECURSIVE TrimStart(_)
TrimStart(s) ==
    IF s = <<>> THEN <<>>
    ELSE IF IsWhitespace(Head(s)) THEN TrimStart(Tail(s))
    ELSE s

RECURSIVE TrimEnd(_)
TrimEnd(s) ==
    IF s = <<>> THEN <<>>
    ELSE IF IsWhitespace(s[Len(s)]) THEN TrimEnd(SubSeq(s, 1, Len(s) - 1))
    ELSE s

\* str::trim: both ends stripped of whitespace.
Trim(s) == TrimEnd(TrimStart(s))

RECURSIVE Concat(_)
Concat(parts) ==
    IF parts = <<>> THEN <<>> ELSE Head(parts) \o Concat(Tail(parts))

StartsWith(s, p) == Len(p) <= Len(s) /\ SubSeq(s, 1, Len(p)) = p

Contains(s, p) ==
    \E i \in 0..(Len(s) - Len(p)) : SubSeq(s, i + 1, i + Len(p)) = p

Digits == <<"0", "1", "2", "3", "4", "5", "6", "7", "8", "9">>

\* Display of a usize: decimal digits, most significant first.
RECURSIVE DecFmt(_)
DecFmt(n) ==
    IF n < 10 THEN <<Digits[n + 1]>>
    ELSE DecFmt(n \div 10) \o <<Digits[(n % 10) + 1]>>

\* char::escape_debug inside a string literal.
EscapeDebug(c) ==
    CASE c = "\t" -> <<"\\", "t">>
      [] c = "\n" -> <<"\\", "n">>
      [] c = "\r" -> <<"\\", "r">>
      [] c = "\\" -> <<"\\", "\\">>
      [] c = "\"" -> <<"\\", "\"">>
      [] OTHER    -> <<c>>

RECURSIVE EscapeAll(_)
EscapeAll(s) ==
    IF s = <<>> THEN <<>> ELSE EscapeDebug(Head(s)) \o EscapeAll(Tail(s))

\* {:?} of a String: quoted, with escapes.
DebugStr(s) == <<"\"">> \o EscapeAll(s) \o <<"\"">>

RECURSIVE DebugItems(_)
DebugItems(l) ==
    IF l = <<>> THEN <<>>
    ELSE IF Len(l) = 1 THEN DebugStr(l[1])
    ELSE DebugStr(Head(l)) \o <<",", " ">> \o DebugItems(Tail(l))

\* {:?} of a Vec<String>.
DebugVec(l) == <<"[">> \o DebugItems(l) \o <<"]">>

\* ------------------------------------------------ InvalidArgumentsError
FUNCTION_NAME == <<"p", "a", "r", "s", "e", "N", "a", "m", "e", "F", "r", "o", "m", "A", "r", "g", "s">>

\* Variant: the usage text names a generic program instead of the cargo
\* invocation.
EXPECTED_USAGE_Program == <<"p", "r", "o", "g", "r", "a", "m", " ", "[", "n", "a", "m", "e", "]">>

EXPECTED_USAGE == <<"c", "a", "r", "g", "o", " ", "r", "u", "n", " ", "-", "-", " ", "[", "n", "a", "m", "e", "]">>

InvalidArgumentsError(functionName, a, expectedUsage) ==
    [functionName |-> functionName, args |-> a, expectedUsage |-> expectedUsage]

\* Variant: the count shown leaves the program name out.
Display_UserCount(e) ==
    Concat(<<<<"I", "n", "v", "a", "l", "i", "d", " ", "a", "r", "g", "u", "m", "e", "n", "t", "s", " ", "i", "n", " ">>, e.functionName,
             <<".", "\n", " ", " ", "e", "x", "p", "e", "c", "t", "e", "d", ":", " ">>, e.expectedUsage,
             <<"\n", " ", " ", "a", "c", "t", "u", "a", "l", " ", "a", "r", "g", "s", "(">>, DecFmt(Len(e.args) - 1), <<")", ":", " ">>, DebugVec(e.args)>>)

\* impl fmt::Display for InvalidArgumentsError
Display(e) ==
    Concat(<<<<"I", "n", "v", "a", "l", "i", "d", " ", "a", "r", "g", "u", "m", "e", "n", "t", "s", " ", "i", "n", " ">>, e.functionName,
             <<".", "\n", " ", " ", "e", "x", "p", "e", "c", "t", "e", "d", ":", " ">>, e.expectedUsage,
             <<"\n", " ", " ", "a", "c", "t", "u", "a", "l", " ", "a", "r", "g", "s", "(">>, DecFmt(Len(e.args)), <<")", ":", " ">>, DebugVec(e.args)>>)

\* #[derive(Debug)] on InvalidArgumentsError
Debug(e) ==
    Concat(<<<<"I", "n", "v", "a", "l", "i", "d", "A", "r", "g", "u", "m", "e", "n", "t", "s", "E", "r", "r", "o", "r", " ", "{", " ", "f", "u", "n", "c", "t", "i", "o", "n", "N", "a", "m", "e", ":", " ">>, DebugStr(e.functionName),
             <<",", " ", "a", "r", "g", "s", ":", " ">>, DebugVec(e.args),
             <<",", " ", "e", "x", "p", "e", "c", "t", "e", "d", "U", "s", "a", "g", "e", ":", " ">>, DebugStr(e.expectedUsage), <<" ", "}">>>>)

\* ----------------------------------------------------- parseNameFromArgs
Ok(v) == [tag |-> "Ok", value |-> v]

Err(e) == [tag |-> "Err", value |-> e]

None == [tag |-> "None", value |-> <<>>]

IsOk(r) == r.tag = "Ok"

IsErr(r) == r.tag = "Err"

WORLD == <<"W", "o", "r", "l", "d">>

\* Variant: the value is returned trimmed.
ResolveName_Trimmed(a) ==
    IF Len(a) >= 2 /\ Trim(a[2]) # <<>> THEN Trim(a[2]) ELSE WORLD

\* Variant: emptiness is tested without trimming.
ResolveName_EmptyCheck(a) ==
    IF Len(a) >= 2 /\ a[2] # <<>> THEN a[2] ELSE WORLD

\* Variant: any present value is returned, blank or not.
ResolveName_AnyValue(a) ==
    IF Len(a) >= 2 THEN a[2] ELSE WORLD

\* The match on args.get(1): the value itself when it is not blank, the
\* default otherwise (also when there is no element 1).
ResolveName(a) ==
    IF Len(a) >= 2 /\ Trim(a[2]) # <<>> THEN a[2] ELSE WORLD

\* Variant: the length test is off by one.
parseNameFromArgs_OffByOne(a) ==
    IF Len(a) > 3
    THEN Err(InvalidArgumentsError(FUNCTION_NAME, a, EXPECTED_USAGE))
    ELSE Ok(ResolveName(a))

\* Variant: the error carries the user arguments only.
parseNameFromArgs_UserArgsOnly(a) ==
    IF Len(a) >= 3
    THEN Err(InvalidArgumentsError(FUNCTION_NAME, Tail(a), EXPECTED_USAGE))
    ELSE Ok(ResolveName(a))

parseNameFromArgs(a) ==
    IF Len(a) >= 3
    THEN Err(InvalidArgumentsError(FUNCTION_NAME, a, EXPECTED_USAGE))
    ELSE Ok(ResolveName(a))

\* ------------------------------------------------------------------ main
Init ==
    /\ args = <<>>
    /\ pc = "start"
    /\ result = None
    /\ mainRet = None
    /\ stdout = <<>>
    /\ stderr = <<>>
    /\ exitStatus = -1

\* std::env::args().collect()
CollectArgs ==
    /\ pc = "start"
    /\ \E a \in ArgLists : args' = a
    /\ pc' = "collected"
    /\ UNCHANGED <<result, mainRet, stdout, stderr, exitStatus>>

\* parseNameFromArgs(&args)
CallParse ==
    /\ pc = "collected"
    /\ result' = parseNameFromArgs(args)
    /\ pc' = "parsed"
    /\ UNCHANGED <<args, mainRet, stdout, stderr, exitStatus>>

\* .map_err(|error| { eprintln!("[ERROR] {}", error); error })
MapErr ==
    /\ pc = "parsed"
    /\ IsErr(result)
    /\ stderr' = Append(stderr, <<"[", "E", "R", "R", "O", "R", "]", " ">> \o Display(result.value) \o <<"\n">>)
    /\ pc' = "reported"
    /\ UNCHANGED <<args, result, mainRet, stdout, exitStatus>>

\* Variant: the error is swallowed and the default name is used.
Try_Swallow ==
    /\ pc = "reported"
    /\ result' = Ok(WORLD)
    /\ pc' = "parsed"
    /\ UNCHANGED <<args, mainRet, stdout, stderr, exitStatus>>

\* the ? operator on the Err: main returns the boxed error
Try ==
    /\ pc = "reported"
    /\ mainRet' = Err(result.value)
    /\ pc' = "returned"
    /\ UNCHANGED <<args, result, stdout, stderr, exitStatus>>

\* Variant: print! instead of println!.
Greet_NoNewline ==
    /\ pc = "parsed"
    /\ IsOk(result)
    /\ stdout' = Append(stdout, <<"H", "e", "l", "l", "o", ",", " ">> \o result.value \o <<"!">>)
    /\ pc' = "greeted"
    /\ UNCHANGED <<args, result, mainRet, stderr, exitStatus>>

\* println!("Hello, {}!", name)
Greet ==
    /\ pc = "parsed"
    /\ IsOk(result)
    /\ stdout' = Append(stdout, <<"H", "e", "l", "l", "o", ",", " ">> \o result.value \o <<"!", "\n">>)
    /\ pc' = "greeted"
    /\ UNCHANGED <<args, result, mainRet, stderr, exitStatus>>

\* Ok(())
ReturnOk ==
    /\ pc = "greeted"
    /\ mainRet' = Ok(<<>>)
    /\ pc' = "returned"
    /\ UNCHANGED <<args, result, stdout, stderr, exitStatus>>

\* What returning Result<(), Box<dyn Error>> from main does: Ok exits with
\* status 0; Err writes "Error: {:?}" of the error to stderr and exits
\* with status 1.
Terminate ==
    /\ pc = "returned"
    /\ IF IsErr(mainRet)
       THEN /\ stderr' = Append(stderr, <<"E", "r", "r", "o", "r", ":", " ">> \o Debug(mainRet.value) \o <<"\n">>)
            /\ exitStatus' = 1
       ELSE /\ stderr' = stderr
            /\ exitStatus' = 0
    /\ pc' = "exited"
    /\ UNCHANGED <<args, result, mainRet, stdout>>

Next ==
    \/ CollectArgs
    \/ CallParse
    \/ MapErr
    \/ Try
    \/ Greet
    \/ ReturnOk
    \/ Terminate

Spec == Init /\ [][Next]_vars

TypeOK ==
    /\ args \in ArgLists
    /\ pc \in {"start", "collected", "parsed", "reported", "greeted", "returned", "exited"}
    /\ result.tag \in {"None", "Ok", "Err"}
    /\ mainRet.tag \in {"None", "Ok", "Err"}
    /\ exitStatus \in {-1, 0, 1}

Parsed == pc \notin {"start", "collected"}

Reported == pc \in {"reported", "returned", "exited"} /\ IsErr(result)

\* ---------------------------------------------------------------- claims

\* C1: parseNameFromArgs returns the validation error exactly when the
\* argument list (program name included) has 3 or more elements; lists of
\* length 0, 1 or 2 yield a name.
C1_ErrIffThreeOrMore ==
    Parsed => /\ (IsErr(result) <=> Len(args) >= 3)
              /\ (IsOk(result) <=> Len(args) <= 2)

C1_Witness ==
    /\ pc = "parsed" /\ Len(args) = 3 /\ IsErr(result)

\* C2: with exactly one user argument that is not blank after trimming,
\* the returned name is that argument character for character, leading and
\* trailing whitespace included.
C2_Verbatim ==
    (Parsed /\ Len(args) = 2 /\ Trim(args[2]) # <<>>)
        => (IsOk(result) /\ result.value = args[2])

C2_Witness ==
    /\ pc = "parsed" /\ Len(args) = 2
    /\ args[2] = <<" ", "a">>
    /\ IsOk(result) /\ Len(result.value) = 2 /\ result.value[1] = " "

\* C3: with no user argument (length 0 or 1), or with one user argument
\* that is empty or whitespace only, the returned name is "World".
C3_Default ==
    (Parsed /\ (Len(args) <= 1 \/ (Len(args) = 2 /\ \A i \in 1..Len(args[2]) : IsWhitespace(args[2][i]))))
        => (IsOk(result) /\ result.value = <<"W", "o", "r", "l", "d">>)

C3_Witness ==
    /\ pc = "parsed" /\ Len(args) = 2 /\ args[2] = <<" ", "\t">>
    /\ result = Ok(<<"W", "o", "r", "l", "d">>)

\* C4: a returned name is never empty and never whitespace only.
C4_NameNotBlank ==
    (Parsed /\ IsOk(result))
        => /\ result.value # <<>>
           /\ \E i \in 1..Len(result.value) : ~IsWhitespace(result.value[i])

C4_Witness ==
    /\ pc = "greeted" /\ Len(args) = 2 /\ args[2] = <<" ">>
    /\ IsOk(result) /\ Trim(result.value) # <<>>

\* C5: the validation error carries the operation name "parseNameFromArgs"
\* and the whole argument list as received, program name included.
C5_ErrorCarriesInput ==
    (Parsed /\ IsErr(result))
        => /\ result.value.functionName = <<"p", "a", "r", "s", "e", "N", "a", "m", "e", "F", "r", "o", "m", "A", "r", "g", "s">>
           /\ result.value.args = args
           /\ Len(result.value.args) = Len(args)

C5_Witness ==
    /\ pc = "parsed" /\ IsErr(result)
    /\ args = <<<<"a">>, <<" ">>, <<"\t">>>>
    /\ result.value.args[1] = <<"a">>

\* C6 as stated: the expected-usage text of the validation error, and of
\* the message, is "program [name]".
C6_UsageIsProgramName ==
    Reported => /\ result.value.expectedUsage = <<"p", "r", "o", "g", "r", "a", "m", " ", "[", "n", "a", "m", "e", "]">>
                /\ Contains(stderr[1], <<"e", "x", "p", "e", "c", "t", "e", "d", ":", " ", "p", "r", "o", "g", "r", "a", "m", " ", "[", "n", "a", "m", "e", "]">>)

\* C6 amended: the expected-usage text of the validation error, and of the
\* message, is "cargo run -- [name]".
C6_UsageIsCargoRun ==
    Reported => /\ result.value.expectedUsage = <<"c", "a", "r", "g", "o", " ", "r", "u", "n", " ", "-", "-", " ", "[", "n", "a", "m", "e", "]">>
                /\ Contains(stderr[1], <<"e", "x", "p", "e", "c", "t", "e", "d", ":", " ", "c", "a", "r", "g", "o", " ", "r", "u", "n", " ", "-", "-", " ", "[", "n", "a", "m", "e", "]", "\n">>)

C6_Witness ==
    /\ pc = "reported" /\ IsErr(result) /\ Len(stderr) = 1
    /\ Len(result.value.expectedUsage) = 19

\* C7: the greeting is written only after a successful parse and an error
\* only after a failed one, never both in one run, and a run that has
\* left main has written one of the two.
C7_GreetingXorError ==
    /\ ~(stdout # <<>> /\ stderr # <<>>)
    /\ (stdout # <<>> => IsOk(result))
    /\ (stderr # <<>> => IsErr(result))
    /\ (pc \in {"returned", "exited"} => (stdout # <<>> \/ stderr # <<>>))

C7_Witness ==
    /\ pc = "exited" /\ stderr # <<>> /\ stdout = <<>> /\ Len(args) = 3

\* C8: the run exits with status 0 exactly when at most one user argument
\* was given, and then stdout is "Hello, <name>!" and a newline, <name>
\* being the parsed name; otherwise the status is not 0 and stdout is empty.
C8_ExitAndGreeting ==
    pc = "exited"
        => /\ (exitStatus = 0 <=> Len(args) <= 2)
           /\ (exitStatus = 0 =>
                 /\ IsOk(result)
                 /\ Concat(stdout) = <<"H", "e", "l", "l", "o", ",", " ">> \o result.value \o <<"!">> \o <<"\n">>)
           /\ (Len(args) >= 3 => (exitStatus # 0 /\ stdout = <<>>))
           /\ (args = <<<<"a">>, <<"a">>>> => Concat(stdout) = <<"H", "e", "l", "l", "o", ",", " ", "a", "!", "\n">>)

C8_Witness ==
    /\ pc = "exited" /\ exitStatus = 0 /\ args = <<<<"a">>, <<"a", " ">>>>
    /\ Concat(stdout) = <<"H", "e", "l", "l", "o", ",", " ", "a", " ", "!", "\n">>

\* C9: on the failure path exactly one description of the error is written
\* to stderr by the time the process has exited.
C9_ReportedOnce ==
    (pc = "exited" /\ IsErr(result)) => Len(stderr) = 1

\* C10: the message main writes starts with "[ERROR]" and contains the
\* operation name, the usage text, and the argument count followed by the
\* argument list; the count is the length of the list shown, which is the
\* whole list with the program name.
C10_MessageShape ==
    Reported =>
        LET msg == stderr[1]
        IN  /\ StartsWith(msg, <<"[", "E", "R", "R", "O", "R", "]">>)
            /\ Contains(msg, <<"p", "a", "r", "s", "e", "N", "a", "m", "e", "F", "r", "o", "m", "A", "r", "g", "s">>)
            /\ Contains(msg, result.value.expectedUsage)
            /\ Contains(msg, <<"a", "c", "t", "u", "a", "l", " ", "a", "r", "g", "s", "(">> \o DecFmt(Len(args)) \o <<")", ":", " ">> \o DebugVec(args))
            /\ (args = <<<<"a">>, <<"a">>, <<"a">>>> => Contains(msg, <<"a", "c", "t", "u", "a", "l", " ", "a", "r", "g", "s", "(", "3", ")", ":", " ", "[", "\"", "a", "\"", ",", " ", "\"", "a", "\"", ",", " ", "\"", "a", "\"", "]", "\n">>))

C10_Witness ==
    /\ pc = "reported" /\ args = <<<<"a">>, <<"a">>, <<"a">>>>
    /\ Contains(stderr[1], <<"(", "3", ")", ":", " ", "[", "\"", "a", "\"", ",", " ", "\"", "a", "\"", ",", " ", "\"", "a", "\"", "]">>)
====
